---- MODULE Spec2Model ----
(***************************************************************************)
(* Model of the guard patrol simulator of day06 (src/day06/src/lib.rs):    *)
(* Map::new, Map::walk, Map::count_steps, Map::track_guard and             *)
(* Map::find_traps, one action per call, loop iteration or return; and of  *)
(* the page sorter of day05, the instruction filter of day03, the disk     *)
(* compactors of day09 and the antinode counter of day08, each under a     *)
(* specification of its own.                                               *)
(***************************************************************************)
EXTENDS Integers, Sequences, FiniteSets, TLC

\* ------------------------------------------------------------------------
\* Bounds of the explored inputs
\* ------------------------------------------------------------------------
MaxH == 2
MaxW == 3
MaxObstacles == 2
MaxTurns == 5

VARIABLES
    input,              \* the Vec<Vec<char>> handed to Map::new
    pc,                 \* position of the program
    data, height, width, guard,   \* the fields of the Map
    ret,                \* the last value returned by a public method
    sim,                \* find_traps: simulated_map (its data and guard)
    visited_locations,  \* track_guard: the HashSet<Guard>
    traps, cand,        \* find_traps: the counter and the (col, row) cursor
    guard0,             \* history: the guard found by Map::new
    path,               \* history: cells the guard occupied during walk
    turns,              \* history: consecutive rotations of the running loop
    iters,              \* history: iterations of the running track_guard
    tracked,            \* history: outcome of the last track_guard
    walked,             \* history: walk has returned
    prev,               \* history: the guard before the last step of the loop
    rules, sequence,    \* day05: the rule pairs and the update handed to the Graph
    sorted_seq,         \* day05: what Graph::topological_sort returned
    instructions,       \* day03: the Vec<Instruction> handed to filter_enabled
    mul_instructions,   \* day03: what Instruction::filter_enabled returned
    disk_input,         \* day09: the characters of the input string
    pc9,                \* day09: position of the program
    map,                \* day09: Disk.map, the blocks
    list,               \* day09: Files.list, the files
    id,                 \* day09: the id the loop of Files::defragment is at
    checksum,           \* day09: what checksum() returned
    wrapped,            \* day09: a subtraction of Files::defragment has wrapped
    city,               \* day08: the Vec<Vec<char>> handed to City::new
    antinode_count      \* day08: what get_unique_antinode_count returned

map_vars == <<input, pc, data, height, width, guard, ret, sim, visited_locations,
              traps, cand, guard0, path, turns, iters, tracked, walked, prev>>

day05_vars == <<rules, sequence, sorted_seq>>

day03_vars == <<instructions, mul_instructions>>

day09_vars == <<disk_input, pc9, map, list, id, checksum, wrapped>>

day08_vars == <<city, antinode_count>>

\* the variables of the days other than day06
other_days == <<day05_vars, day03_vars, day09_vars, day08_vars>>

vars == <<map_vars, other_days>>

\* ------------------------------------------------------------------------
\* Option<T>: None is the empty sequence, Some(v) a one-element sequence
\* ------------------------------------------------------------------------
None == <<>>
Some(v) == <<v>>
IsSome(o) == o # <<>>
Unwrap(o) == o[1]

\* the programs of the other days have not been started
Day05Off == rules = {} /\ sequence = <<>> /\ sorted_seq = None
Day03Off == instructions = <<>> /\ mul_instructions = None
Day09Off ==
    /\ disk_input = <<>>
    /\ pc9 = "off"
    /\ map = <<>>
    /\ list = <<>>
    /\ id = 0
    /\ checksum = None
    /\ wrapped = FALSE
Day08Off == city = <<>> /\ antinode_count = None
OtherDaysOff == Day05Off /\ Day03Off /\ Day09Off /\ Day08Off

\* ------------------------------------------------------------------------
\* Location, Direction, Guard
\* ------------------------------------------------------------------------
Directions == {"Left", "Right", "Up", "Down"}

Location(x, y) == [x |-> x, y |-> y]

Guard(loc, dir) == [loc |-> loc, dir |-> dir]

\* mutant: the glyphs of Up and Down exchanged
try_from_flipped(c) ==
    CASE c = "<" -> Some("Left")
      [] c = ">" -> Some("Right")
      [] c = "v" -> Some("Up")
      [] c = "^" -> Some("Down")
      [] OTHER -> None

\* impl TryFrom<char> for Direction
try_from(c) ==
    CASE c = "<" -> Some("Left")
      [] c = ">" -> Some("Right")
      [] c = "^" -> Some("Up")
      [] c = "v" -> Some("Down")
      [] OTHER -> None

\* impl From<Direction> for char
into_char(val) ==
    CASE val = "Left" -> ">"
      [] val = "Right" -> "<"
      [] val = "Up" -> "^"
      [] val = "Down" -> "v"

\* mutant: a quarter turn counter-clockwise
rotate_ccw(dir) ==
    CASE dir = "Right" -> "Up"
      [] dir = "Up" -> "Left"
      [] dir = "Left" -> "Down"
      [] dir = "Down" -> "Right"

\* mutant: the guard turns about
rotate_half(dir) ==
    CASE dir = "Right" -> "Left"
      [] dir = "Left" -> "Right"
      [] dir = "Up" -> "Down"
      [] dir = "Down" -> "Up"

\* Direction::rotate
rotate(dir) ==
    CASE dir = "Right" -> "Down"
      [] dir = "Down" -> "Left"
      [] dir = "Left" -> "Up"
      [] dir = "Up" -> "Right"

\* mutant: the two steps returned in the other order
signum_transposed(dir) ==
    CASE dir = "Left" -> <<-1, 0>>
      [] dir = "Right" -> <<1, 0>>
      [] dir = "Up" -> <<0, -1>>
      [] dir = "Down" -> <<0, 1>>

\* Direction::signum: the pair (col_step, row_step)
signum(dir) ==
    CASE dir = "Left" -> <<0, -1>>
      [] dir = "Right" -> <<0, 1>>
      [] dir = "Up" -> <<-1, 0>>
      [] dir = "Down" -> <<1, 0>>

\* mutant: saturating_sub in place of checked_sub
cordination_add_saturating(cor, delta) ==
    IF delta >= 0 THEN Some(cor + delta)
    ELSE IF cor >= -delta THEN Some(cor - (-delta)) ELSE Some(0)

\* Location::cordination_add: checked_add cannot overflow usize for an index
\* of a Vec, checked_sub yields None below zero
cordination_add(cor, delta) ==
    IF delta >= 0 THEN Some(cor + delta)
    ELSE IF cor >= -delta THEN Some(cor - (-delta)) ELSE None

\* Location::delta
delta(loc, delta_x, delta_y) ==
    LET y == cordination_add(loc.y, delta_y)
        x == cordination_add(loc.x, delta_x)
    IN IF IsSome(y) /\ IsSome(x) THEN Some(Location(Unwrap(x), Unwrap(y)))
       ELSE None

\* ------------------------------------------------------------------------
\* Inputs
\* ------------------------------------------------------------------------
Glyphs == {"<", ">", "^", "v"}

Cells(h, w) == (0 .. h - 1) \X (0 .. w - 1)

CountOf(g, h, w, c) == Cardinality({p \in Cells(h, w) : g[p[1]][p[2]] = c})

\* grids of '.' and '#' with a bounded number of obstacles
Floors(h, w) ==
    {g \in [0 .. h - 1 -> [0 .. w - 1 -> {".", "#"}]] :
        CountOf(g, h, w, "#") <= MaxObstacles}

\* the same with the guard's glyph on one open cell
WithGuard(h, w) ==
    {[g EXCEPT ![p[1]][p[2]] = c] :
        <<g, p, c>> \in {t \in Floors(h, w) \X Cells(h, w) \X Glyphs :
                            t[1][t[2][1]][t[2][2]] = "."}}

\* the sample of the tests (SAMPLE)
SampleObstacles ==
    {<<0, 4>>, <<1, 9>>, <<3, 2>>, <<4, 7>>, <<6, 1>>, <<7, 8>>, <<8, 0>>, <<9, 6>>}

SAMPLE ==
    [r \in 0 .. 9 |-> [c \in 0 .. 9 |->
        IF <<r, c>> \in SampleObstacles THEN "#"
        ELSE IF <<r, c>> = <<6, 4>> THEN "^" ELSE "."]]

\* the guard boxed in by obstacles on all four sides (spec 4.2, 7)
BOXED ==
    [r \in 0 .. 2 |-> [c \in 0 .. 2 |->
        IF <<r, c>> = <<1, 1>> THEN "^"
        ELSE IF r = 1 \/ c = 1 THEN "#" ELSE "."]]

\* the guard with obstacles above, right and below her; the left is open
NICHE(c) ==
    [r \in 0 .. 2 |-> [k \in 0 .. 2 |->
        IF <<r, k>> = <<1, 1>> THEN c
        ELSE IF <<r, k>> \in {<<0, 1>>, <<1, 2>>, <<2, 1>>} THEN "#" ELSE "."]]

\* the guard on the top row with obstacles left, right and below her
LEDGE(c) ==
    [r \in 0 .. 1 |-> [k \in 0 .. 2 |->
        IF <<r, k>> = <<0, 1>> THEN c
        ELSE IF <<r, k>> \in {<<0, 0>>, <<0, 2>>, <<1, 1>>} THEN "#" ELSE "."]]

\* every grid within the bounds, with or without a guard, and the ones above
Inputs ==
    {SAMPLE, BOXED} \cup {NICHE(c) : c \in Glyphs} \cup {LEDGE(c) : c \in Glyphs} \cup
    UNION {Floors(h, w) \cup WithGuard(h, w) : <<h, w>> \in (1 .. MaxH) \X (1 .. MaxW)}

Len2(g) == Cardinality(DOMAIN g)

\* ------------------------------------------------------------------------
\* Map
\* ------------------------------------------------------------------------
NoMap == [data |-> <<>>, guard |-> None]
NoRet == [op |-> "none", val |-> 0]

\* self.data[y][x] is a checked index: the row has a cell at the column
HasCell(d, p) == p[1] \in DOMAIN d /\ p[2] \in DOMAIN d[p[1]]

\* the cells of the height x width scan that the rows do not have
Missing(d, h, w) == {p \in Cells(h, w) : ~HasCell(d, p)}

\* p comes before q in the two nested loops
Before(p, q) == p[1] < q[1] \/ (p[1] = q[1] /\ p[2] < q[2])

\* the glyphs the scan of find_guard can read
GlyphsIn(d, h, w) ==
    {p \in Cells(h, w) : HasCell(d, p) /\ IsSome(try_from(d[p[1]][p[2]]))}

\* Map::find_guard indexes past the end of a row before it meets a glyph
find_guard_panics(d, h, w) ==
    \E m \in Missing(d, h, w) : \A f \in GlyphsIn(d, h, w) : Before(m, f)

\* Map::find_guard: the first glyph in row-major order
find_guard(d, h, w) ==
    LET found == GlyphsIn(d, h, w)
    IN IF found = {} THEN None
       ELSE LET p == CHOOSE q \in found :
                        \A o \in found : q[1] < o[1] \/ (q[1] = o[1] /\ q[2] <= o[2])
            IN Some(Guard(Location(p[2], p[1]), Unwrap(try_from(d[p[1]][p[2]]))))

\* Map::update_guard, on the data
update_guard(d, loc, dir) == [d EXCEPT ![loc.y][loc.x] = into_char(dir)]

\* mutant: the count starts from one
count_steps_from_one(d, h, w) ==
    1 + Cardinality({p \in Cells(h, w) : d[p[1]][p[2]] = "X"})

\* Map::count_steps
count_steps(d, h, w) == Cardinality({p \in Cells(h, w) : d[p[1]][p[2]] = "X"})

\* the cell ahead of a guard: the delta call of walk and of track_guard
next_of(g) ==
    LET s == signum(g.dir) IN delta(g.loc, s[2], s[1])

InGrid(loc, h, w) == loc.x < w /\ loc.y < h

Init ==
    /\ input \in Inputs
    /\ pc = "start"
    /\ data = <<>>
    /\ height = 0
    /\ width = 0
    /\ guard = None
    /\ ret = NoRet
    /\ sim = NoMap
    /\ visited_locations = {}
    /\ traps = 0
    /\ cand = 0
    /\ guard0 = None
    /\ path = {}
    /\ turns = 0
    /\ iters = 0
    /\ tracked = "none"
    /\ walked = FALSE
    /\ prev = None
    /\ OtherDaysOff

\* Map::new
MapNew ==
    /\ pc = "start"
    /\ ~find_guard_panics(input, Len2(input), Len2(input[0]))
    /\ pc' = "idle"
    /\ data' = input
    /\ height' = Len2(input)
    /\ width' = Len2(input[0])
    /\ guard' = find_guard(input, Len2(input), Len2(input[0]))
    /\ guard0' = guard'
    /\ UNCHANGED other_days
    /\ UNCHANGED <<input, walked, prev, ret, sim, visited_locations, traps, cand, path, turns,
                   iters, tracked>>

\* ------------------------------------------------------------------------
\* Map::walk: the call, one action per branch of a loop iteration, the return
\* ------------------------------------------------------------------------
Bump(n) == IF n < MaxTurns THEN n + 1 ELSE n

WalkCall ==
    /\ pc = "idle"
    /\ pc' = "walk"
    /\ ret' = NoRet
    /\ turns' = 0
    /\ path' = IF IsSome(guard) THEN path \cup {Unwrap(guard).loc} ELSE path
    /\ prev' = None
    /\ UNCHANGED other_days
    /\ UNCHANGED <<input, walked, data, height, width, guard, sim, visited_locations,
                   traps, cand, guard0, iters, tracked>>

\* the cell ahead is an obstacle: update_guard(guard.loc, guard.dir.rotate())
WalkRotate ==
    /\ pc = "walk"
    /\ IsSome(guard)
    /\ LET g == Unwrap(guard)
           n == next_of(g)
       IN /\ IsSome(n)
          /\ InGrid(Unwrap(n), height, width)
          /\ HasCell(data, <<Unwrap(n).y, Unwrap(n).x>>)
          /\ data[Unwrap(n).y][Unwrap(n).x] = "#"
          /\ guard' = Some(Guard(g.loc, rotate(g.dir)))
          /\ data' = update_guard(data, g.loc, rotate(g.dir))
    /\ turns' = Bump(turns)
    /\ prev' = guard
    /\ UNCHANGED other_days
    /\ UNCHANGED <<input, walked, pc, height, width, ret, sim, visited_locations, traps,
                   cand, guard0, path, iters, tracked>>

\* mutant: the guard steps ahead whatever the cell ahead holds
WalkMove_Through ==
    /\ pc = "walk"
    /\ IsSome(guard)
    /\ LET g == Unwrap(guard)
           n == next_of(g)
       IN /\ IsSome(n)
          /\ InGrid(Unwrap(n), height, width)
          /\ HasCell(data, <<Unwrap(n).y, Unwrap(n).x>>)
          /\ guard' = Some(Guard(Unwrap(n), g.dir))
          /\ data' = update_guard([data EXCEPT ![g.loc.y][g.loc.x] = "X"],
                                  Unwrap(n), g.dir)
          /\ path' = path \cup {Unwrap(n)}
    /\ turns' = 0
    /\ prev' = guard
    /\ UNCHANGED other_days
    /\ UNCHANGED <<input, walked, pc, height, width, ret, sim, visited_locations, traps,
                   cand, guard0, iters, tracked>>

\* the cell ahead is free: mark the cell 'X', update_guard(next_loc, guard.dir)
WalkMove ==
    /\ pc = "walk"
    /\ IsSome(guard)
    /\ LET g == Unwrap(guard)
           n == next_of(g)
       IN /\ IsSome(n)
          /\ InGrid(Unwrap(n), height, width)
          /\ HasCell(data, <<Unwrap(n).y, Unwrap(n).x>>)
          /\ data[Unwrap(n).y][Unwrap(n).x] # "#"
          /\ guard' = Some(Guard(Unwrap(n), g.dir))
          /\ data' = update_guard([data EXCEPT ![g.loc.y][g.loc.x] = "X"],
                                  Unwrap(n), g.dir)
          /\ path' = path \cup {Unwrap(n)}
    /\ turns' = 0
    /\ prev' = guard
    /\ UNCHANGED other_days
    /\ UNCHANGED <<input, walked, pc, height, width, ret, sim, visited_locations, traps,
                   cand, guard0, iters, tracked>>

\* mutant: the guard leaves without her last cell being marked
WalkLeaveBounds_NoMark ==
    /\ pc = "walk"
    /\ IsSome(guard)
    /\ LET n == next_of(Unwrap(guard))
       IN IsSome(n) /\ ~InGrid(Unwrap(n), height, width)
    /\ guard' = None
    /\ prev' = guard
    /\ UNCHANGED other_days
    /\ UNCHANGED <<input, walked, pc, data, height, width, ret, sim,
                   visited_locations, traps, cand, guard0, path, turns, iters,
                   tracked>>

\* mutant: the guard is moved onto the cell past the last row or column
WalkLeaveBounds_Stay ==
    /\ pc = "walk"
    /\ IsSome(guard)
    /\ LET g == Unwrap(guard)
           n == next_of(g)
       IN /\ IsSome(n)
          /\ ~InGrid(Unwrap(n), height, width)
          /\ data' = [data EXCEPT ![g.loc.y][g.loc.x] = "X"]
          /\ guard' = Some(Guard(Unwrap(n), g.dir))
    /\ prev' = guard
    /\ UNCHANGED other_days
    /\ UNCHANGED <<input, walked, pc, height, width, ret, sim, visited_locations, traps,
                   cand, guard0, path, turns, iters, tracked>>

\* the cell ahead is past the last row or column
WalkLeaveBounds ==
    /\ pc = "walk"
    /\ IsSome(guard)
    /\ LET g == Unwrap(guard)
           n == next_of(g)
       IN /\ IsSome(n)
          /\ ~InGrid(Unwrap(n), height, width)
          /\ data' = [data EXCEPT ![g.loc.y][g.loc.x] = "X"]
          /\ guard' = None
    /\ prev' = guard
    /\ UNCHANGED other_days
    /\ UNCHANGED <<input, walked, pc, height, width, ret, sim, visited_locations, traps,
                   cand, guard0, path, turns, iters, tracked>>

\* the cell ahead is before row 0 or column 0: delta returns None
WalkLeaveNone ==
    /\ pc = "walk"
    /\ IsSome(guard)
    /\ LET g == Unwrap(guard)
           n == next_of(g)
       IN /\ ~IsSome(n)
          /\ data' = [data EXCEPT ![g.loc.y][g.loc.x] = "X"]
          /\ guard' = None
    /\ prev' = guard
    /\ UNCHANGED other_days
    /\ UNCHANGED <<input, walked, pc, height, width, ret, sim, visited_locations, traps,
                   cand, guard0, path, turns, iters, tracked>>

\* while let Some(guard) = self.guard fails: walk returns
WalkReturn ==
    /\ pc = "walk"
    /\ ~IsSome(guard)
    /\ pc' = "idle"
    /\ ret' = [op |-> "walk", val |-> 0]
    /\ walked' = TRUE
    /\ UNCHANGED other_days
    /\ UNCHANGED <<input, prev, data, height, width, guard, sim, visited_locations,
                   traps, cand, guard0, path, turns, iters, tracked>>

\* Map::count_steps
CountSteps ==
    /\ pc = "idle"
    /\ Missing(data, height, width) = {}
    /\ ret' = [op |-> "count_steps", val |-> count_steps(data, height, width)]
    /\ UNCHANGED other_days
    /\ UNCHANGED <<input, walked, prev, pc, data, height, width, guard, sim, visited_locations,
                   traps, cand, guard0, path, turns, iters, tracked>>

\* ------------------------------------------------------------------------
\* Map::find_traps and Map::track_guard
\* ------------------------------------------------------------------------
\* row-major position of a cell in the two nested loops
Index(p, w) == p[1] * w + p[2]

\* mutant: every cell that is not an obstacle is tried
Pending_NotObstacle(d, h, w, k) ==
    {p \in Cells(h, w) : Index(p, w) >= k /\ d[p[1]][p[2]] # "#"}

\* the open cells the loops have still to reach, from the cursor on
Pending(d, h, w, k) == {p \in Cells(h, w) : Index(p, w) >= k /\ d[p[1]][p[2]] = "."}

FirstOf(ps, w) == CHOOSE p \in ps : \A q \in ps : Index(p, w) <= Index(q, w)

FindTrapsCall ==
    /\ pc = "idle"
    /\ pc' = "find_traps"
    /\ ret' = NoRet
    /\ traps' = 0
    /\ cand' = 0
    /\ UNCHANGED other_days
    /\ UNCHANGED <<input, walked, prev, data, height, width, guard, sim, visited_locations,
                   guard0, path, turns, iters, tracked>>

\* mutant: the obstacle is not put on the simulated map
FindTrapsCandidate_NoObstacle ==
    /\ pc = "find_traps"
    /\ Pending(data, height, width, cand) # {}
    /\ cand' = Index(FirstOf(Pending(data, height, width, cand), width), width)
    /\ sim' = [data |-> data, guard |-> guard]
    /\ visited_locations' = {}
    /\ pc' = "track_guard"
    /\ turns' = 0
    /\ iters' = 0
    /\ tracked' = "none"
    /\ prev' = None
    /\ UNCHANGED other_days
    /\ UNCHANGED <<input, walked, data, height, width, guard, ret, traps, guard0, path>>

\* mutant: the simulated map of the candidate before is used again
FindTrapsCandidate_Reuse ==
    /\ pc = "find_traps"
    /\ Pending(data, height, width, cand) # {}
    /\ LET p == FirstOf(Pending(data, height, width, cand), width)
           m == IF sim = NoMap THEN [data |-> data, guard |-> guard] ELSE sim
       IN /\ cand' = Index(p, width)
          /\ sim' = [data |-> [m.data EXCEPT ![p[1]][p[2]] = "#"], guard |-> m.guard]
    /\ visited_locations' = {}
    /\ pc' = "track_guard"
    /\ turns' = 0
    /\ iters' = 0
    /\ tracked' = "none"
    /\ prev' = None
    /\ UNCHANGED other_days
    /\ UNCHANGED <<input, walked, data, height, width, guard, ret, traps, guard0, path>>

\* the loops reach the next '.' cell: clone the map, put '#' on the cell and
\* enter track_guard with an empty set
FindTrapsCandidate ==
    /\ pc = "find_traps"
    /\ Pending(data, height, width, cand) # {}
    /\ LET p == FirstOf(Pending(data, height, width, cand), width)
       IN /\ cand' = Index(p, width)
          /\ sim' = [data |-> [data EXCEPT ![p[1]][p[2]] = "#"], guard |-> guard]
    /\ visited_locations' = {}
    /\ pc' = "track_guard"
    /\ turns' = 0
    /\ iters' = 0
    /\ tracked' = "none"
    /\ prev' = None
    /\ UNCHANGED other_days
    /\ UNCHANGED <<input, walked, data, height, width, guard, ret, traps, guard0, path>>

\* the loops end: find_traps returns traps, its locals are dropped
FindTrapsReturn ==
    /\ pc = "find_traps"
    /\ Pending(data, height, width, cand) = {}
    /\ pc' = "idle"
    /\ ret' = [op |-> "find_traps", val |-> traps]
    /\ sim' = NoMap
    /\ visited_locations' = {}
    /\ traps' = 0
    /\ cand' = 0
    /\ turns' = 0
    /\ iters' = 0
    /\ tracked' = "none"
    /\ prev' = None
    /\ UNCHANGED other_days
    /\ UNCHANGED <<input, walked, data, height, width, guard, guard0, path>>

\* track_guard returns Some(..) to find_traps: traps += 1
ReturnSome ==
    /\ pc' = "find_traps"
    /\ tracked' = "Some"
    /\ traps' = traps + 1
    /\ cand' = cand + 1

\* track_guard returns None to find_traps
ReturnNone ==
    /\ pc' = "find_traps"
    /\ tracked' = "None"
    /\ traps' = traps
    /\ cand' = cand + 1

\* the while let fails at once: Some(visited_locations) after the loop
TrackNoGuard ==
    /\ pc = "track_guard"
    /\ ~IsSome(sim.guard)
    /\ ReturnSome
    /\ UNCHANGED other_days
    /\ UNCHANGED <<input, walked, prev, data, height, width, guard, ret, sim, visited_locations,
                   guard0, path, turns, iters>>

\* mutant: the set is emptied instead of the cycle being reported
TrackCycle_Restart ==
    /\ pc = "track_guard"
    /\ IsSome(sim.guard)
    /\ Unwrap(sim.guard) \in visited_locations
    /\ visited_locations' = {}
    /\ iters' = iters + 1
    /\ UNCHANGED other_days
    /\ UNCHANGED <<input, walked, prev, pc, data, height, width, guard, ret, sim,
                   traps, cand, guard0, path, turns, tracked>>

\* visited_locations.insert(guard) finds the guard in the set
TrackCycle ==
    /\ pc = "track_guard"
    /\ IsSome(sim.guard)
    /\ Unwrap(sim.guard) \in visited_locations
    /\ ReturnSome
    /\ iters' = iters + 1
    /\ UNCHANGED other_days
    /\ UNCHANGED <<input, walked, prev, data, height, width, guard, ret, sim, visited_locations,
                   guard0, path, turns>>

\* mutant: a rotation is not recorded in the set
TrackRotate_NoInsert ==
    /\ pc = "track_guard"
    /\ IsSome(sim.guard)
    /\ Unwrap(sim.guard) \notin visited_locations
    /\ LET g == Unwrap(sim.guard)
           n == next_of(g)
       IN /\ IsSome(n)
          /\ InGrid(Unwrap(n), height, width)
          /\ sim.data[Unwrap(n).y][Unwrap(n).x] = "#"
          /\ sim' = [sim EXCEPT !.guard = Some(Guard(g.loc, rotate(g.dir)))]
    /\ turns' = Bump(turns)
    /\ iters' = iters + 1
    /\ prev' = sim.guard
    /\ UNCHANGED other_days
    /\ UNCHANGED <<input, walked, pc, data, height, width, guard, ret, traps, cand,
                   guard0, path, tracked, visited_locations>>

\* the cell ahead is an obstacle: the guard turns
TrackRotate ==
    /\ pc = "track_guard"
    /\ IsSome(sim.guard)
    /\ Unwrap(sim.guard) \notin visited_locations
    /\ visited_locations' = visited_locations \cup {Unwrap(sim.guard)}
    /\ LET g == Unwrap(sim.guard)
           n == next_of(g)
       IN /\ IsSome(n)
          /\ InGrid(Unwrap(n), height, width)
          /\ sim.data[Unwrap(n).y][Unwrap(n).x] = "#"
          /\ sim' = [sim EXCEPT !.guard = Some(Guard(g.loc, rotate(g.dir)))]
    /\ turns' = Bump(turns)
    /\ iters' = iters + 1
    /\ prev' = sim.guard
    /\ UNCHANGED other_days
    /\ UNCHANGED <<input, walked, pc, data, height, width, guard, ret, traps, cand,
                   guard0, path, tracked>>

TrackMove ==
    /\ pc = "track_guard"
    /\ IsSome(sim.guard)
    /\ Unwrap(sim.guard) \notin visited_locations
    /\ visited_locations' = visited_locations \cup {Unwrap(sim.guard)}
    /\ LET g == Unwrap(sim.guard)
           n == next_of(g)
       IN /\ IsSome(n)
          /\ InGrid(Unwrap(n), height, width)
          /\ sim.data[Unwrap(n).y][Unwrap(n).x] # "#"
          /\ sim' = [guard |-> Some(Guard(Unwrap(n), g.dir)),
                     data |-> [sim.data EXCEPT ![g.loc.y][g.loc.x] = "*"]]
    /\ turns' = 0
    /\ iters' = iters + 1
    /\ prev' = sim.guard
    /\ UNCHANGED other_days
    /\ UNCHANGED <<input, walked, pc, data, height, width, guard, ret, traps, cand,
                   guard0, path, tracked>>

TrackLeaveBounds ==
    /\ pc = "track_guard"
    /\ IsSome(sim.guard)
    /\ Unwrap(sim.guard) \notin visited_locations
    /\ visited_locations' = visited_locations \cup {Unwrap(sim.guard)}
    /\ LET n == next_of(Unwrap(sim.guard))
       IN IsSome(n) /\ ~InGrid(Unwrap(n), height, width)
    /\ ReturnNone
    /\ iters' = iters + 1
    /\ prev' = sim.guard
    /\ UNCHANGED other_days
    /\ UNCHANGED <<input, walked, data, height, width, guard, ret, sim, guard0, path, turns>>

TrackLeaveNone ==
    /\ pc = "track_guard"
    /\ IsSome(sim.guard)
    /\ Unwrap(sim.guard) \notin visited_locations
    /\ visited_locations' = visited_locations \cup {Unwrap(sim.guard)}
    /\ ~IsSome(next_of(Unwrap(sim.guard)))
    /\ ReturnNone
    /\ iters' = iters + 1
    /\ prev' = sim.guard
    /\ UNCHANGED other_days
    /\ UNCHANGED <<input, walked, data, height, width, guard, ret, sim, guard0, path, turns>>

Next ==
    \/ MapNew
    \/ WalkCall
    \/ WalkRotate
    \/ WalkMove
    \/ WalkLeaveBounds
    \/ WalkLeaveNone
    \/ WalkReturn
    \/ CountSteps
    \/ FindTrapsCall
    \/ FindTrapsCandidate
    \/ FindTrapsReturn
    \/ TrackNoGuard
    \/ TrackCycle
    \/ TrackRotate
    \/ TrackMove
    \/ TrackLeaveBounds
    \/ TrackLeaveNone

Spec == Init /\ [][Next]_vars

\* the loop of walk, once entered, runs its next iteration: a call of walk
\* is not suspended between two iterations
WalkStep ==
    WalkRotate \/ WalkMove \/ WalkLeaveBounds \/ WalkLeaveNone \/ WalkReturn

FairSpec == Spec /\ WF_vars(WalkStep)

\* ------------------------------------------------------------------------
\* Malformed inputs: rows of unequal length, two guard glyphs.  Map::new
\* takes any Vec<Vec<char>>; an index past the end of a row panics.
\* ------------------------------------------------------------------------
\* row r without its last cell
Shorter(g, r) == [g EXCEPT ![r] = [c \in 0 .. Len2(g[r]) - 2 |-> g[r][c]]]

\* row r with one more cell holding ch
Longer(g, r, ch) ==
    [g EXCEPT ![r] = [c \in 0 .. Len2(g[r]) |-> IF c < Len2(g[r]) THEN g[r][c] ELSE ch]]

\* the grids of up to hmax rows (two at least) and wmax columns, and BOXED
Rectangles(hmax, wmax) ==
    {BOXED} \cup
    UNION {Floors(h, w) \cup WithGuard(h, w) : <<h, w>> \in (2 .. hmax) \X (1 .. wmax)}

\* a rectangle with one row after the first made shorter or longer
RaggedInputs(hmax, wmax) ==
    UNION {{Shorter(g, r) : r \in 1 .. Len2(g) - 1}
              \cup {Longer(g, r, ch) : <<r, ch>> \in (1 .. Len2(g) - 1) \X {".", "#", "^"}}
           : g \in Rectangles(hmax, wmax)}

\* a grid with a guard and a second glyph on one of its open cells
TwoGuardInputs(hmax, wmax) ==
    UNION {{[g EXCEPT ![p[1]][p[2]] = c] :
                <<p, c>> \in {t \in Cells(Len2(g), Len2(g[0])) \X Glyphs :
                                g[t[1][1]][t[1][2]] = "."}}
           : g \in UNION {WithGuard(h, w) : <<h, w>> \in (1 .. hmax) \X (1 .. wmax)}}

InitMalformed ==
    /\ input \in RaggedInputs(MaxH, MaxW) \cup TwoGuardInputs(MaxH, MaxW)
    /\ pc = "start"
    /\ data = <<>>
    /\ height = 0
    /\ width = 0
    /\ guard = None
    /\ ret = NoRet
    /\ sim = NoMap
    /\ visited_locations = {}
    /\ traps = 0
    /\ cand = 0
    /\ guard0 = None
    /\ path = {}
    /\ turns = 0
    /\ iters = 0
    /\ tracked = "none"
    /\ walked = FALSE
    /\ prev = None
    /\ OtherDaysOff

\* Map::new panics in find_guard: no Map is built
MapNewPanic ==
    /\ pc = "start"
    /\ find_guard_panics(input, Len2(input), Len2(input[0]))
    /\ pc' = "panic_new"
    /\ UNCHANGED other_days
    /\ UNCHANGED <<input, data, height, width, guard, ret, sim, visited_locations,
                   traps, cand, guard0, path, turns, iters, tracked, walked, prev>>

\* walk reads self.data[next_loc.y][next_loc.x] past the end of the row
WalkPanic ==
    /\ pc = "walk"
    /\ IsSome(guard)
    /\ LET n == next_of(Unwrap(guard))
       IN /\ IsSome(n)
          /\ InGrid(Unwrap(n), height, width)
          /\ ~HasCell(data, <<Unwrap(n).y, Unwrap(n).x>>)
    /\ pc' = "panic_walk"
    /\ UNCHANGED other_days
    /\ UNCHANGED <<input, data, height, width, guard, ret, sim, visited_locations,
                   traps, cand, guard0, path, turns, iters, tracked, walked, prev>>

\* count_steps reads self.data[col][row] past the end of a row
CountStepsPanic ==
    /\ pc = "idle"
    /\ Missing(data, height, width) # {}
    /\ pc' = "panic_count_steps"
    /\ UNCHANGED other_days
    /\ UNCHANGED <<input, data, height, width, guard, ret, sim, visited_locations,
                   traps, cand, guard0, path, turns, iters, tracked, walked, prev>>

\* the program of bin/part_one.rs: Map::new, walk, count_steps
NextMalformed ==
    \/ MapNew
    \/ MapNewPanic
    \/ WalkCall
    \/ WalkRotate
    \/ WalkMove
    \/ WalkLeaveBounds
    \/ WalkLeaveNone
    \/ WalkPanic
    \/ WalkReturn
    \/ CountSteps
    \/ CountStepsPanic

SpecMalformed == InitMalformed /\ [][NextMalformed]_vars

\* ------------------------------------------------------------------------
\* walk and track_guard side by side on one grid: walk on the map,
\* track_guard on a clone of it, one loop iteration of each per step
\* ------------------------------------------------------------------------
\* one iteration of the loop of Map::walk on a map whose guard is present
walk_iter(m, h, w) ==
    LET g == Unwrap(m.guard)
        n == next_of(g)
    IN IF IsSome(n) /\ InGrid(Unwrap(n), h, w)
       THEN IF m.data[Unwrap(n).y][Unwrap(n).x] = "#"
            THEN [data |-> update_guard(m.data, g.loc, rotate(g.dir)),
                  guard |-> Some(Guard(g.loc, rotate(g.dir)))]
            ELSE [data |-> update_guard([m.data EXCEPT ![g.loc.y][g.loc.x] = "X"],
                                        Unwrap(n), g.dir),
                  guard |-> Some(Guard(Unwrap(n), g.dir))]
       ELSE [data |-> [m.data EXCEPT ![g.loc.y][g.loc.x] = "X"], guard |-> None]

\* mutant: track_guard passes the two steps to delta in the other order
track_iter_swapped(m, vis, h, w) ==
    IF ~IsSome(m.guard) \/ Unwrap(m.guard) \in vis
    THEN [map |-> m, visited |-> vis, result |-> "Some"]
    ELSE LET g == Unwrap(m.guard)
             n == delta(g.loc, signum(g.dir)[1], signum(g.dir)[2])
             seen == vis \cup {g}
         IN IF IsSome(n) /\ InGrid(Unwrap(n), h, w)
            THEN IF m.data[Unwrap(n).y][Unwrap(n).x] = "#"
                 THEN [map |-> [m EXCEPT !.guard = Some(Guard(g.loc, rotate(g.dir)))],
                       visited |-> seen, result |-> "none"]
                 ELSE [map |-> [guard |-> Some(Guard(Unwrap(n), g.dir)),
                                data |-> [m.data EXCEPT ![g.loc.y][g.loc.x] = "*"]],
                       visited |-> seen, result |-> "none"]
            ELSE [map |-> m, visited |-> seen, result |-> "None"]

\* one iteration of the loop of Map::track_guard, or its return after the
\* loop: the map, the set and what is returned ("none" while it runs on)
track_iter(m, vis, h, w) ==
    IF ~IsSome(m.guard) \/ Unwrap(m.guard) \in vis
    THEN [map |-> m, visited |-> vis, result |-> "Some"]
    ELSE LET g == Unwrap(m.guard)
             n == next_of(g)
             seen == vis \cup {g}
         IN IF IsSome(n) /\ InGrid(Unwrap(n), h, w)
            THEN IF m.data[Unwrap(n).y][Unwrap(n).x] = "#"
                 THEN [map |-> [m EXCEPT !.guard = Some(Guard(g.loc, rotate(g.dir)))],
                       visited |-> seen, result |-> "none"]
                 ELSE [map |-> [guard |-> Some(Guard(Unwrap(n), g.dir)),
                                data |-> [m.data EXCEPT ![g.loc.y][g.loc.x] = "*"]],
                       visited |-> seen, result |-> "none"]
            ELSE [map |-> m, visited |-> seen, result |-> "None"]

\* self.clone() for track_guard, walk on the map itself
PairCall ==
    /\ pc = "idle"
    /\ pc' = "pair"
    /\ sim' = [data |-> data, guard |-> guard]
    /\ visited_locations' = {}
    /\ tracked' = "none"
    /\ iters' = 0
    /\ prev' = None
    /\ UNCHANGED other_days
    /\ UNCHANGED <<input, data, height, width, guard, ret, traps, cand, guard0, path,
                   turns, walked>>

\* both loops run one iteration; walk, once her guard is gone, has returned
PairStep ==
    /\ pc = "pair"
    /\ tracked = "none"
    /\ LET m == IF IsSome(guard)
                THEN walk_iter([data |-> data, guard |-> guard], height, width)
                ELSE [data |-> data, guard |-> guard]
           t == track_iter(sim, visited_locations, height, width)
       IN /\ data' = m.data
          /\ guard' = m.guard
          /\ sim' = t.map
          /\ visited_locations' = t.visited
          /\ tracked' = t.result
    /\ iters' = iters + 1
    /\ prev' = guard
    /\ UNCHANGED other_days
    /\ UNCHANGED <<input, pc, height, width, ret, traps, cand, guard0, path, turns,
                   walked>>

NextPair ==
    \/ MapNew
    \/ PairCall
    \/ PairStep

SpecPair == Init /\ [][NextPair]_vars

\* no grid has been read: the day06 program is not started
MapOff ==
    /\ input = <<>>
    /\ pc = "off"
    /\ data = <<>>
    /\ height = 0
    /\ width = 0
    /\ guard = None
    /\ ret = NoRet
    /\ sim = NoMap
    /\ visited_locations = {}
    /\ traps = 0
    /\ cand = 0
    /\ guard0 = None
    /\ path = {}
    /\ turns = 0
    /\ iters = 0
    /\ tracked = "none"
    /\ walked = FALSE
    /\ prev = None

\* ------------------------------------------------------------------------
\* day05 (src/day05/src/lib.rs): Graph::new, shrink, validate and
\* topological_sort.  A Graph is the function rules: page -> set of pages.
\* ------------------------------------------------------------------------
MaxPage == 3

Range(q) == {q[i] : i \in DOMAIN q}

\* the rule sets over pages 1..n, a rule X|Y being <<X, Y>> with X # Y
RuleSets(n) == SUBSET {r \in (1 .. n) \X (1 .. n) : r[1] # r[2]}

\* the updates: sequences of distinct pages of 1..n
Updates(n) ==
    UNION {{q \in [1 .. k -> 1 .. n] : \A i, j \in 1 .. k : q[i] = q[j] => i = j}
           : k \in 1 .. n}

\* Graph::new: rules[b] holds a for every pair (a, b); a is a key as well
GraphNew(rs) ==
    [p \in {r[1] : r \in rs} \cup {r[2] : r \in rs} |->
        {r[1] : r \in {q \in rs : q[2] = p}}]

\* Graph::shrink: the pages of the sequence that are keys, with their
\* dependencies within the sequence
shrink(g, q) == [p \in DOMAIN g \cap Range(q) |-> g[p] \cap Range(q)]

\* seq_positions: the index a page was last inserted with
PositionIn(q, p) == CHOOSE i \in DOMAIN q : q[i] = p /\ \A j \in DOMAIN q : q[j] = p => j <= i

\* Graph::validate
validate(g, q) ==
    LET graph == shrink(g, q)
    IN \A page \in DOMAIN graph : \A dep \in graph[page] :
          ~(PositionIn(q, page) < PositionIn(q, dep))

\* the orders in which an iteration over a HashMap or HashSet may yield S
Orders(S) ==
    {o \in [1 .. Cardinality(S) -> S] : \A x \in S : \E i \in DOMAIN o : o[i] = x}

\* the while loop of topological_sort: every output it can end with
RECURSIVE Kahn(_, _, _, _, _)
Kahn(graph, q, queue, in_degree, out) ==
    IF queue = <<>> THEN {out}
    ELSE LET page == Head(queue)
             pushed == IF page \in Range(q) THEN Append(out, page) ELSE out
             degree == [d \in DOMAIN in_degree |->
                          IF d \in graph[page] THEN in_degree[d] - 1 ELSE in_degree[d]]
             zero == {d \in graph[page] \cap DOMAIN in_degree : degree[d] = 0}
         IN UNION {Kahn(graph, q, Tail(queue) \o o, degree, pushed) : o \in Orders(zero)}

\* Graph::topological_sort: the outputs it can return, over the orders of
\* iteration of its HashMaps and HashSets
topological_sort(g, q) ==
    LET graph == shrink(g, q)
        in_degree == [n \in DOMAIN graph |->
                        Cardinality({m \in DOMAIN graph : n \in graph[m]})]
        zero == {n \in DOMAIN graph : in_degree[n] = 0}
    IN UNION {Kahn(graph, q, o, in_degree, <<>>) : o \in Orders(zero)}

InitSort ==
    /\ MapOff
    /\ rules \in RuleSets(MaxPage)
    /\ sequence \in Updates(MaxPage)
    /\ sorted_seq = None
    /\ Day03Off
    /\ Day09Off
    /\ Day08Off

\* graph.topological_sort(seq) on Graph::new(&rules)
TopologicalSort ==
    /\ sorted_seq = None
    /\ \E r \in topological_sort(GraphNew(rules), sequence) : sorted_seq' = Some(r)
    /\ UNCHANGED <<rules, sequence>>
    /\ UNCHANGED <<map_vars, day03_vars, day09_vars, day08_vars>>

NextSort ==
    \/ TopologicalSort

SpecSort == InitSort /\ [][NextSort]_vars

\* ------------------------------------------------------------------------
\* day03 (src/day03/src/lib.rs): Instruction::filter_enabled.  Mul(a, b) is
\* <<"Mul", a, b>>, Do is <<"Do">>, Dont is <<"Dont">>.
\* ------------------------------------------------------------------------
MaxInstructions == 4

Mul(first, second) == <<"Mul", first, second>>
Do == <<"Do">>
Dont == <<"Dont">>

\* the instruction lists of up to n instructions
InstructionLists(n) ==
    UNION {[1 .. k -> {Mul(2, 4), Mul(5, 5), Do, Dont}] : k \in 0 .. n}

\* the for loop of filter_enabled over the instructions left
RECURSIVE filter_loop(_, _, _)
filter_loop(instrs, result, is_mul_enabled) ==
    IF instrs = <<>> THEN result
    ELSE LET instr == Head(instrs)
         IN CASE instr[1] = "Mul" ->
                    filter_loop(Tail(instrs),
                                IF ~is_mul_enabled
                                THEN Append(result, <<instr[2], instr[3]>>)
                                ELSE result,
                                is_mul_enabled)
              [] instr = Do -> filter_loop(Tail(instrs), result, FALSE)
              [] instr = Dont -> filter_loop(Tail(instrs), result, TRUE)

\* mutant: the flag starts out set
filter_enabled_flag_set(instrs) == filter_loop(instrs, <<>>, TRUE)

\* Instruction::filter_enabled
filter_enabled(instrs) == filter_loop(instrs, <<>>, FALSE)

InitFilter ==
    /\ MapOff
    /\ Day05Off
    /\ instructions \in InstructionLists(MaxInstructions)
    /\ mul_instructions = None
    /\ Day09Off
    /\ Day08Off

\* Instruction::filter_enabled(instructions)
FilterEnabled ==
    /\ mul_instructions = None
    /\ mul_instructions' = Some(filter_enabled(instructions))
    /\ UNCHANGED instructions
    /\ UNCHANGED <<map_vars, day05_vars, day09_vars, day08_vars>>

NextFilter ==
    \/ FilterEnabled

SpecFilter == InitFilter /\ [][NextFilter]_vars

\* ------------------------------------------------------------------------
\* day09 (src/day09/src/lib.rs): Disk and Files.  The input is a sequence of
\* digit characters; a block is an Option<Id>; positions count from 0, the
\* sequences of the model from 1.
\* ------------------------------------------------------------------------
MaxDigits == 5
MaxDigit == 2

DigitChars == <<"0", "1", "2", "3", "4", "5", "6", "7", "8", "9">>

\* char::to_digit(10) on a digit character
to_digit(c) == (CHOOSE i \in DOMAIN DigitChars : DigitChars[i] = c) - 1

\* the strings of 1 to n digit characters, each digit at most d
DigitStrings(n, d) ==
    UNION {[1 .. k -> {DigitChars[v + 1] : v \in 0 .. d}] : k \in 1 .. n}

\* the input of the tests: "2333133121414131402"
SAMPLE9 ==
    <<"2", "3", "3", "3", "1", "3", "3", "1", "2", "1", "4", "1", "4", "1", "3", "1",
      "4", "0", "2">>

Repeat(v, n) == [i \in 1 .. n |-> v]

\* Disk::parse from character k on (idx = k - 1), file_id being the next id
RECURSIVE disk_parse_from(_, _, _, _)
disk_parse_from(in, k, file_id, blocks) ==
    IF k > Len(in) THEN blocks
    ELSE LET length == to_digit(in[k])
             is_file == (k - 1) % 2 = 0
         IN disk_parse_from(in, k + 1,
                            IF is_file THEN file_id + 1 ELSE file_id,
                            blocks \o Repeat(IF is_file THEN Some(file_id) ELSE None,
                                             length))

\* Disk::parse
disk_parse(in) == disk_parse_from(in, 1, 0, <<>>)

\* self.map.iter().rposition(|&b| b.is_some()).unwrap()
rposition(m) == CHOOSE i \in DOMAIN m : IsSome(m[i]) /\ \A j \in DOMAIN m : IsSome(m[j]) => j <= i

\* mutant: the first file block is taken instead of the last
position_after(m, k) ==
    CHOOSE i \in DOMAIN m : i > k /\ IsSome(m[i])
                              /\ \A j \in DOMAIN m : (j > k /\ IsSome(m[j])) => i <= j

swap(m, i, j) == [m EXCEPT ![i] = m[j], ![j] = m[i]]

\* the for loop of Disk::defragment from idx = k - 1 on
RECURSIVE disk_defragment_from(_, _, _)
disk_defragment_from(m, k, non_space_len) ==
    IF k > non_space_len THEN m
    ELSE IF IsSome(m[k]) THEN disk_defragment_from(m, k + 1, non_space_len)
    ELSE disk_defragment_from(swap(m, rposition(m), k), k + 1, non_space_len)

RECURSIVE disk_defragment_first_from(_, _, _)
disk_defragment_first_from(m, k, non_space_len) ==
    IF k > non_space_len THEN m
    ELSE IF IsSome(m[k]) THEN disk_defragment_first_from(m, k + 1, non_space_len)
    ELSE disk_defragment_first_from(swap(m, position_after(m, k), k), k + 1,
                                    non_space_len)

\* mutant: each free slot takes the nearest file block after it
disk_defragment_first(m) ==
    disk_defragment_first_from(m, 1, Cardinality({i \in DOMAIN m : IsSome(m[i])}))

\* Disk::defragment
disk_defragment(m) ==
    disk_defragment_from(m, 1, Cardinality({i \in DOMAIN m : IsSome(m[i])}))

RECURSIVE SumOver(_, _, _)
SumOver(f(_), lo, hi) == IF lo > hi THEN 0 ELSE f(lo) + SumOver(f, lo + 1, hi)

\* Disk::checksum: the sum of id * position over the file blocks
disk_checksum(m) ==
    LET term(i) == IF IsSome(m[i]) THEN Unwrap(m[i]) * (i - 1) ELSE 0
    IN SumOver(term, 1, Len(m))

InitDisk ==
    /\ MapOff
    /\ Day05Off
    /\ Day03Off
    /\ disk_input \in DigitStrings(MaxDigits, MaxDigit) \cup {SAMPLE9}
    /\ pc9 = "start"
    /\ map = <<>>
    /\ list = <<>>
    /\ id = 0
    /\ checksum = None
    /\ wrapped = FALSE
    /\ Day08Off

\* Disk::parse(input)
DiskParse ==
    /\ pc9 = "start"
    /\ pc9' = "parsed"
    /\ map' = disk_parse(disk_input)
    /\ UNCHANGED <<disk_input, list, id, checksum, wrapped>>
    /\ UNCHANGED <<map_vars, day05_vars, day03_vars, day08_vars>>

\* disk.defragment()
DiskDefragment ==
    /\ pc9 = "parsed"
    /\ pc9' = "defragmented"
    /\ map' = disk_defragment(map)
    /\ UNCHANGED <<disk_input, list, id, checksum, wrapped>>
    /\ UNCHANGED <<map_vars, day05_vars, day03_vars, day08_vars>>

\* disk.checksum()
DiskChecksum ==
    /\ pc9 = "defragmented"
    /\ pc9' = "done"
    /\ checksum' = Some(disk_checksum(map))
    /\ UNCHANGED <<disk_input, map, list, id, wrapped>>
    /\ UNCHANGED <<map_vars, day05_vars, day03_vars, day08_vars>>

NextDisk ==
    \/ DiskParse
    \/ DiskDefragment
    \/ DiskChecksum

SpecDisk == InitDisk /\ [][NextDisk]_vars

\* a File
File(i, size, position) == [id |-> i, size |-> size, position |-> position]

\* Files::parse from character k on (idx = k - 1)
RECURSIVE files_parse_from(_, _, _, _, _)
files_parse_from(in, k, file_id, position, files) ==
    IF k > Len(in) THEN files
    ELSE LET size == to_digit(in[k])
             is_file == (k - 1) % 2 = 0
         IN files_parse_from(in, k + 1,
                             IF is_file THEN file_id + 1 ELSE file_id,
                             position + size,
                             IF is_file THEN Append(files, File(file_id, size, position))
                             ELSE files)

\* Files::parse
files_parse(in) == files_parse_from(in, 1, 0, 0, <<>>)

\* self.list.sort_by_key(|x| x.position): a stable sort
sort_by_position(l) ==
    LET rank(i) == Cardinality({j \in DOMAIN l :
                        \/ l[j].position < l[i].position
                        \/ (l[j].position = l[i].position /\ j < i)})
    IN [k \in DOMAIN l |-> l[CHOOSE i \in DOMAIN l : rank(i) = k - 1]]

\* the loop over self.list.windows(2) from window k on: new_pos, and whether
\* b.position - (a.position + a.size) went below zero on the way.  Wrapped
\* to usize the difference is at least 2^64 - position, above every size.
RECURSIVE windows_from(_, _, _, _)
windows_from(l, file, k, under) ==
    IF k + 1 > Len(l) THEN [new_pos |-> None, under |-> under]
    ELSE LET a == l[k]
             b == l[k + 1]
             pos == a.position + a.size
             below == b.position < pos
         IN IF pos > file.position
            THEN [new_pos |-> None, under |-> under \/ below]
            ELSE IF below \/ b.position - pos >= file.size
            THEN [new_pos |-> Some(pos), under |-> under \/ below]
            ELSE windows_from(l, file, k + 1, under)

\* self.list.iter().position(|x| x.id == id).unwrap()
position_of(l, i) == CHOOSE k \in DOMAIN l : l[k].id = i

\* Files::checksum
files_checksum(l) ==
    LET blocks(k) == LET term(p) == p * l[k].id
                     IN SumOver(term, l[k].position, l[k].position + l[k].size - 1)
    IN SumOver(blocks, 1, Len(l))

InitFiles == InitDisk

\* Files::parse(input)
FilesParse ==
    /\ pc9 = "start"
    /\ pc9' = "parsed"
    /\ list' = files_parse(disk_input)
    /\ UNCHANGED <<disk_input, map, id, checksum, wrapped>>
    /\ UNCHANGED <<map_vars, day05_vars, day03_vars, day08_vars>>

\* files.defragment(): max_id, the loop starts from it
FilesDefragmentCall ==
    /\ pc9 = "parsed"
    /\ pc9' = "defragment"
    /\ id' = list[Len(list)].id
    /\ UNCHANGED <<disk_input, map, list, checksum, wrapped>>
    /\ UNCHANGED <<map_vars, day05_vars, day03_vars, day08_vars>>

\* one iteration of the loop over the ids: find the file, scan the windows,
\* move the file, sort the list; a subtraction below zero wraps (release)
FilesIterate ==
    /\ pc9 = "defragment"
    /\ LET file_idx == position_of(list, id)
           w == windows_from(list, list[file_idx], 1, FALSE)
       IN /\ list' = sort_by_position(
                        IF IsSome(w.new_pos)
                        THEN [list EXCEPT ![file_idx].position = Unwrap(w.new_pos)]
                        ELSE list)
          /\ wrapped' = (wrapped \/ w.under)
    /\ id' = IF id = 0 THEN 0 ELSE id - 1
    /\ pc9' = IF id = 0 THEN "defragmented" ELSE "defragment"
    /\ UNCHANGED <<disk_input, map, checksum>>
    /\ UNCHANGED <<map_vars, day05_vars, day03_vars, day08_vars>>

\* the first subtraction below zero panics (debug: overflow checks on)
FilesPanic ==
    /\ pc9 = "defragment"
    /\ ~wrapped
    /\ windows_from(list, list[position_of(list, id)], 1, FALSE).under
    /\ pc9' = "panic"
    /\ UNCHANGED <<disk_input, map, list, id, checksum, wrapped>>
    /\ UNCHANGED <<map_vars, day05_vars, day03_vars, day08_vars>>

\* files.checksum()
FilesChecksum ==
    /\ pc9 = "defragmented"
    /\ pc9' = "done"
    /\ checksum' = Some(files_checksum(list))
    /\ UNCHANGED <<disk_input, map, list, id, wrapped>>
    /\ UNCHANGED <<map_vars, day05_vars, day03_vars, day08_vars>>

NextFiles ==
    \/ FilesParse
    \/ FilesDefragmentCall
    \/ FilesIterate
    \/ FilesPanic
    \/ FilesChecksum

SpecFiles == InitFiles /\ [][NextFiles]_vars

\* ------------------------------------------------------------------------
\* day08 (src/day08/src/lib.rs): City::new, find_antinodes and
\* get_unique_antinode_count.  A Location of day08 has x = row, y = column.
\* ------------------------------------------------------------------------
MaxSide == 3
MaxAntennas == 3

\* the grids of h rows and w columns with up to n antennas 'a' and 'A'
CityGrids(h, w, n) ==
    {g \in [0 .. h - 1 -> [0 .. w - 1 -> {".", "a", "A"}]] :
        Cardinality({p \in Cells(h, w) : g[p[1]][p[2]] # "."}) <= n}

\* Grid::new: height and width are taken from the data
GridNew(d) == [grid |-> d, height |-> Len2(d), width |-> Len2(d[0])]

\* City::new: the antennas by frequency, Location::new(row, col)
antennas_of(g) ==
    LET h == Len2(g)
        w == Len2(g[0])
        freqs == {g[p[1]][p[2]] : p \in {q \in Cells(h, w) : g[q[1]][q[2]] # "."}}
    IN [f \in freqs |-> {Location(p[1], p[2]) : p \in {q \in Cells(h, w) : g[q[1]][q[2]] = f}}]

\* Location::cordination_add of day08 (isize delta)
city_cordination_add(cor, d) == IF cor + d >= 0 THEN Some(cor + d) ELSE None

\* Location::delta of day08
city_delta(loc, delta_x, delta_y) ==
    LET y == city_cordination_add(loc.y, delta_y)
        x == city_cordination_add(loc.x, delta_x)
    IN IF IsSome(y) /\ IsSome(x) THEN Some(Location(Unwrap(x), Unwrap(y))) ELSE None

\* Grid::modify accepts the location
modify_accepts(g, loc) == ~(loc.x >= g.height \/ loc.y >= g.width)

\* one while loop of find_antinodes from a multiplier on: the locations
\* of the antinode grid it writes '#' to
RECURSIVE antinodes_from(_, _, _, _, _)
antinodes_from(g, from, delta_x, delta_y, multiplier) ==
    LET n == city_delta(from, multiplier * delta_x, multiplier * delta_y)
    IN IF ~IsSome(n) THEN {}
       ELSE IF ~modify_accepts(g, Unwrap(n)) THEN {}
       ELSE {Unwrap(n)} \cup antinodes_from(g, from, delta_x, delta_y, multiplier + 1)

\* City::find_antinodes: the antinode grid
find_antinodes(g) ==
    LET h == Len2(g)
        w == Len2(g[0])
        blank == GridNew([r \in 0 .. w - 1 |-> [c \in 0 .. h - 1 |-> "."]])
        ants == antennas_of(g)
        pairs == UNION {{<<a, o>> : <<a, o>> \in {t \in ants[f] \X ants[f] : t[1] # t[2]}}
                        : f \in DOMAIN ants}
        marks == UNION {antinodes_from(blank, t[1], t[1].x - t[2].x, t[1].y - t[2].y, 0)
                        : t \in pairs}
    IN [blank EXCEPT !.grid = [r \in 0 .. blank.height - 1 |->
                                 [c \in 0 .. blank.width - 1 |->
                                    IF Location(r, c) \in marks THEN "#" ELSE "."]]]

\* City::get_unique_antinode_count
get_unique_antinode_count(g) ==
    LET antinode_grid == find_antinodes(g)
    IN Cardinality({p \in Cells(antinode_grid.height, antinode_grid.width) :
                       antinode_grid.grid[p[1]][p[2]] = "#"})

InitCity ==
    /\ MapOff
    /\ Day05Off
    /\ Day03Off
    /\ Day09Off
    /\ city \in UNION {CityGrids(h, w, MaxAntennas) :
                          <<h, w>> \in (1 .. MaxSide) \X (1 .. MaxSide)}
    /\ antinode_count = None

\* City::new(grid).get_unique_antinode_count()
GetUniqueAntinodeCount ==
    /\ antinode_count = None
    /\ antinode_count' = Some(get_unique_antinode_count(city))
    /\ UNCHANGED city
    /\ UNCHANGED <<map_vars, day05_vars, day03_vars, day09_vars>>

NextCity ==
    \/ GetUniqueAntinodeCount

SpecCity == InitCity /\ [][NextCity]_vars

\* ------------------------------------------------------------------------
\* The patrol as the specification states it: rows and columns as signed
\* integers, '^' Up, 'v' Down, '<' Left, '>' Right, a quarter turn clockwise
\* at an obstacle.  Used by the properties only.
\* ------------------------------------------------------------------------
RefVec(d) ==
    CASE d = "Up" -> <<-1, 0>>
      [] d = "Right" -> <<0, 1>>
      [] d = "Down" -> <<1, 0>>
      [] d = "Left" -> <<0, -1>>

RefClockwise(d) ==
    CASE d = "Right" -> "Down"
      [] d = "Down" -> "Left"
      [] d = "Left" -> "Up"
      [] d = "Up" -> "Right"

RefGlyphDir(c) ==
    CASE c = "^" -> "Up"
      [] c = "v" -> "Down"
      [] c = "<" -> "Left"
      [] c = ">" -> "Right"

RefAhead(p, d) == <<p[1] + RefVec(d)[1], p[2] + RefVec(d)[2]>>

RefInside(p, h, w) == p[1] >= 0 /\ p[1] < h /\ p[2] >= 0 /\ p[2] < w

InH == Len2(input)
InW == Len2(input[0])
InCells == Cells(InH, InW)
GlyphCells == {p \in InCells : input[p[1]][p[2]] \in Glyphs}
ObstacleCells == {p \in InCells : input[p[1]][p[2]] = "#"}
OpenCells == {p \in InCells : input[p[1]][p[2]] = "."}
OneGuard == Cardinality(GlyphCells) = 1
StartCell == CHOOSE p \in GlyphCells : TRUE
StartDir == RefGlyphDir(input[StartCell[1]][StartCell[2]])

\* the k-th cell ahead of p in direction d
RefAt(p, d, k) == <<p[1] + k * RefVec(d)[1], p[2] + k * RefVec(d)[2]>>

\* how far ahead of p, in direction d, the obstacles of obs lie
RefBlocks(obs, p, d) == {k \in 1 .. InH + InW : RefAt(p, d, k) \in obs}

RefMin(ks) == CHOOSE k \in ks : \A m \in ks : k <= m

\* the cells from p in direction d up to the edge of the grid
RefRay(p, d) == {q \in InCells : \E k \in 0 .. InH + InW : q = RefAt(p, d, k)}

\* the cells from p in direction d up to the cell before the first obstacle
RefLeg(obs, p, d) ==
    {RefAt(p, d, k) : k \in 0 .. RefMin(RefBlocks(obs, p, d)) - 1}

\* the patrol from cell p facing d among the obstacles obs, leg by leg, for
\* at most n turns: whether the guard left the grid, and the cells she
\* occupied
RECURSIVE RefRun(_, _, _, _, _)
RefRun(obs, p, d, n, seen) ==
    IF RefBlocks(obs, p, d) = {} THEN [left |-> TRUE, cells |-> seen \cup RefRay(p, d)]
    ELSE IF n = 0 THEN [left |-> FALSE, cells |-> seen \cup RefLeg(obs, p, d)]
    ELSE RefRun(obs, RefAt(p, d, RefMin(RefBlocks(obs, p, d)) - 1), RefClockwise(d),
                n - 1, seen \cup RefLeg(obs, p, d))

\* the guard turns only in front of an obstacle: a patrol that has turned
\* more often than there are (obstacle, side) pairs repeats a turn and never
\* leaves
RefPatrol(obs) == RefRun(obs, StartCell, StartDir, 4 * Cardinality(obs), {})

\* the guard of the model as a cell (row, column)
CellOf(g) == <<g.loc.y, g.loc.x>>

\* ------------------------------------------------------------------------
\* Properties
\* ------------------------------------------------------------------------

\* C1: on a grid with one guard marker on which the guard departs, count_steps
\* after walk is the number of distinct cells the guard occupied from its
\* start to its departure, the start cell and the last cell included.
C1_CountStepsIsDistinctCells ==
    (pc = "idle" /\ walked /\ ret.op = "count_steps" /\ OneGuard
        /\ RefPatrol(ObstacleCells).left)
    => /\ ret.val = Cardinality(RefPatrol(ObstacleCells).cells)
       /\ path = {Location(p[2], p[1]) : p \in RefPatrol(ObstacleCells).cells}

\* a dead end: the guard crosses her start cell a second time on her way out
C1_Witness ==
    /\ pc = "idle" /\ walked /\ ret.op = "count_steps" /\ OneGuard
    /\ RefPatrol(ObstacleCells).left
    /\ InH = 2 /\ InW = 3 /\ ObstacleCells = {<<0, 2>>, <<1, 1>>}
    /\ input[0][0] = ">"
    /\ ret.val = 2

\* C2: on a freshly parsed grid with a guard, find_traps returns the number
\* of open cells c such that with an obstacle on c the guard, from its start
\* position and direction, never leaves the grid.
C2_FindTrapsCountsLoops ==
    (pc = "idle" /\ ~walked /\ ret.op = "find_traps" /\ OneGuard)
    => ret.val = Cardinality({c \in OpenCells :
                                ~RefPatrol(ObstacleCells \cup {c}).left})

C2_Witness ==
    /\ pc = "idle" /\ ~walked /\ ret.op = "find_traps" /\ OneGuard
    /\ ret.val >= 2
    /\ ret.val < Cardinality(OpenCells)

\* C3: on the sample grid walk then count_steps gives 41, and find_traps on
\* a freshly parsed copy gives 6.
C3_SampleAnswers ==
    (input = SAMPLE /\ pc = "idle")
    => /\ (walked /\ ret.op = "count_steps") => ret.val = 41
       /\ (~walked /\ ret.op = "find_traps") => ret.val = 6

C3_Witness ==
    /\ input = SAMPLE /\ pc = "idle" /\ ~walked /\ ret.op = "find_traps"
    /\ Cardinality(ObstacleCells) = 8
    /\ guard0 = Some(Guard(Location(4, 6), "Up"))

\* the cell ahead of guard g is inside the grid and holds c / does not hold c
AheadCell(g) == RefAhead(CellOf(g), g.dir)
AheadInside(g) == RefInside(AheadCell(g), height, width)
AheadIs(d, g, c) == AheadInside(g) /\ d[AheadCell(g)[1]][AheadCell(g)[2]] = c
AheadIsNot(d, g, c) == AheadInside(g) /\ d[AheadCell(g)[1]][AheadCell(g)[2]] # c
Marked(d, c) == {p \in Cells(height, width) : d[p[1]][p[2]] = c}
QuarterTurn(v) == <<v[2], -v[1]>>
Stepping == pc = "track_guard" /\ IsSome(sim.guard)
               /\ Unwrap(sim.guard) \notin visited_locations

\* C4: in walk and in track_guard, a step with an obstacle on the in-bounds
\* cell ahead keeps the guard's position, turns her direction to its
\* clockwise successor (Right, Down, Left, Up, Right; Up turns from
\* decreasing row to increasing column) and marks no cell visited.
C4_ObstacleTurnsClockwise ==
    [][/\ (pc = "walk" /\ IsSome(guard) /\ AheadIs(data, Unwrap(guard), "#"))
          => /\ IsSome(guard')
             /\ Unwrap(guard').loc = Unwrap(guard).loc
             /\ Unwrap(guard').dir = RefClockwise(Unwrap(guard).dir)
             /\ RefVec(Unwrap(guard').dir) = QuarterTurn(RefVec(Unwrap(guard).dir))
             /\ Marked(data', "X") = Marked(data, "X")
             /\ \A p \in Cells(height, width) :
                    p # CellOf(Unwrap(guard)) => data'[p[1]][p[2]] = data[p[1]][p[2]]
       /\ (Stepping /\ AheadIs(sim.data, Unwrap(sim.guard), "#"))
          => /\ IsSome(sim'.guard)
             /\ Unwrap(sim'.guard).loc = Unwrap(sim.guard).loc
             /\ Unwrap(sim'.guard).dir = RefClockwise(Unwrap(sim.guard).dir)
             /\ sim'.data = sim.data
      ]_vars

C4_Witness ==
    /\ pc = "walk" /\ IsSome(prev) /\ IsSome(guard)
    /\ Unwrap(prev).loc = Unwrap(guard).loc
    /\ Unwrap(prev).dir = "Up" /\ Unwrap(guard).dir = "Right"
    /\ AheadIs(data, Unwrap(prev), "#")

\* C5: during walk, when the cell ahead is outside the grid on any side, the
\* guard's cell is marked visited, the guard becomes absent, and walk then
\* returns normally.
C5_DepartureEndsWalk ==
    [][/\ (pc = "walk" /\ IsSome(guard) /\ ~AheadInside(Unwrap(guard)))
          => /\ guard' = None
             /\ data' = [data EXCEPT ![Unwrap(guard).loc.y][Unwrap(guard).loc.x] = "X"]
             /\ pc' = "walk"
       /\ (pc = "walk" /\ ~IsSome(guard))
          => /\ pc' = "idle" /\ ret'.op = "walk" /\ walked'
             /\ data' = data /\ guard' = None
      ]_vars

\* the guard has left through column 0, her last cell is marked
C5_Witness ==
    /\ pc = "idle" /\ walked /\ ~IsSome(guard) /\ IsSome(prev)
    /\ Unwrap(prev).dir = "Left" /\ Unwrap(prev).loc.x = 0
    /\ data[Unwrap(prev).loc.y][0] = "X"

\* C6: during walk, when the cell ahead is inside the grid and no obstacle,
\* the step moves the guard one cell in her direction, keeps the direction
\* and marks the vacated cell 'X'.
C6_FreeCellMoves ==
    [][(pc = "walk" /\ IsSome(guard) /\ AheadIsNot(data, Unwrap(guard), "#"))
          => /\ IsSome(guard')
             /\ CellOf(Unwrap(guard')) = AheadCell(Unwrap(guard))
             /\ Unwrap(guard').dir = Unwrap(guard).dir
             /\ data'[Unwrap(guard).loc.y][Unwrap(guard).loc.x] = "X"
             /\ \A p \in Cells(height, width) :
                    (p # CellOf(Unwrap(guard)) /\ p # AheadCell(Unwrap(guard)))
                        => data'[p[1]][p[2]] = data[p[1]][p[2]]
      ]_vars

C6_Witness ==
    /\ pc = "walk" /\ IsSome(prev) /\ IsSome(guard)
    /\ Unwrap(prev).dir = "Down" /\ Unwrap(guard).dir = "Down"
    /\ Unwrap(guard).loc.y = Unwrap(prev).loc.y + 1
    /\ data[Unwrap(prev).loc.y][Unwrap(prev).loc.x] = "X"

\* C7: track_guard records the guard's (position, direction) before each
\* step; it returns Some at the first moment a pair would be recorded a
\* second time, without a further step; it returns None exactly when a step
\* would take the guard outside the grid.
C7_TrackGuardReports ==
    [][pc = "track_guard"
          => /\ iters = Cardinality(visited_locations)
             /\ Stepping
                => visited_locations' = visited_locations \cup {Unwrap(sim.guard)}
             /\ (IsSome(sim.guard) /\ Unwrap(sim.guard) \in visited_locations)
                => /\ tracked' = "Some" /\ pc' = "find_traps"
                   /\ sim' = sim /\ visited_locations' = visited_locations
             /\ (tracked' = "None")
                <=> (IsSome(sim.guard) /\ ~AheadInside(Unwrap(sim.guard)))
             /\ (pc' = "find_traps") <=> (tracked' \in {"Some", "None"})
      ]_vars

\* a cycle that is not a guard turning on the spot
C7_Witness ==
    /\ pc = "find_traps" /\ tracked = "Some" /\ IsSome(sim.guard)
    /\ Unwrap(sim.guard) \in visited_locations
    /\ Cardinality({g.loc : g \in visited_locations}) > 1

TrackStep ==
    TrackNoGuard \/ TrackCycle \/ TrackRotate \/ TrackMove \/ TrackLeaveBounds
        \/ TrackLeaveNone

\* C8: on an H x W grid with a guard, track_guard terminates after at most
\* H*W*4 iterations, by departure or by a detected repeated pair: an
\* iteration is always possible, each one counts, and the count never
\* passes H*W*4.
C8_TrackGuardBounded ==
    [][(pc = "track_guard" /\ IsSome(sim.guard))
          => /\ ENABLED TrackStep
             /\ iters' = iters + 1
             /\ iters' <= 4 * height * width
             /\ Cardinality(visited_locations') <= 4 * height * width
             /\ \/ pc' = "track_guard" /\ tracked' = "none"
                \/ /\ pc' = "find_traps" /\ tracked' = "None"
                   /\ ~AheadInside(Unwrap(sim.guard))
                \/ /\ pc' = "find_traps" /\ tracked' = "Some"
                   /\ Unwrap(sim.guard) \in visited_locations
      ]_vars

C8_Witness ==
    /\ pc = "find_traps" /\ tracked = "None" /\ IsSome(sim.guard)
    /\ iters >= 5
    /\ Cardinality({g.loc : g \in visited_locations}) >= 3

\* C9: a guard with an obstacle on all four neighbouring cells makes at most
\* 4 rotation attempts, after which the run fails with an error.
BoxedIn(d, g) ==
    \A dir \in Directions : AheadIs(d, Guard(g.loc, dir), "#")

C9_BoxedInFails ==
    /\ (pc = "walk" /\ IsSome(guard) /\ BoxedIn(data, Unwrap(guard)))
          => turns <= 4
    /\ (pc = "track_guard" /\ IsSome(sim.guard) /\ BoxedIn(sim.data, Unwrap(sim.guard)))
          => turns <= 4

\* C10: constructing a Map from a grid without a guard glyph fails with a
\* parse error: no usable Map is produced, no method returns a number.
C10_NoGuardFailsToParse ==
    GlyphCells = {} => (pc \in {"start", "error"} /\ ret = NoRet)

\* the cells the rows of the input really have
AllCells(g) == UNION {{<<r, c>> : c \in DOMAIN g[r]} : r \in DOMAIN g}
IsRagged(g) == \E r \in DOMAIN g : Len2(g[r]) # Len2(g[0])
GlyphCount(g) == Cardinality({p \in AllCells(g) : g[p[1]][p[2]] \in Glyphs})

\* C11: constructing a Map from a grid with a row longer or shorter than the
\* first fails at construction, before any walk: no Map is built from it
\* (a panic inside Map::new is taken as such a failure).
C11_RaggedFailsAtConstruction ==
    IsRagged(input) => pc \in {"start", "error", "panic_new"}

\* C12: constructing a Map from a grid with more than one guard glyph fails
\* fast: no Map is built with the first glyph as its guard.
C12_TwoGuardsFailFast ==
    GlyphCount(input) > 1 => pc \in {"start", "error", "panic_new"}

\* C13: on one grid and one initial guard, while track_guard runs on, the two
\* loops hold the same guard (position and direction) after every iteration;
\* on the iteration where track_guard returns None, walk has set her guard to
\* absent from that same guard state: walk ends by departure.
C13_TrackNoneIsWalkDeparture ==
    pc = "pair" =>
        /\ tracked = "none" => sim.guard = guard
        /\ tracked = "None" => (guard = None /\ IsSome(prev) /\ sim.guard = prev)

C13_Witness ==
    /\ pc = "pair"
    /\ tracked = "None"
    /\ guard = None
    /\ iters >= 3
    /\ Unwrap(sim.guard).dir # Unwrap(guard0).dir
    /\ Unwrap(sim.guard).loc # Unwrap(guard0).loc

\* C14: find_traps never puts the candidate obstacle on the cell the guard
\* started on and never counts that cell, whichever of the four directions she
\* faced: the cell is never '.' on the map, it is not the candidate of any
\* simulation and it holds no obstacle on any simulated map.
C14_StartCellNeverCandidate ==
    (pc \in {"find_traps", "track_guard"} /\ OneGuard) =>
        /\ data[StartCell[1]][StartCell[2]] # "."
        /\ pc = "track_guard" =>
              /\ cand # Index(StartCell, width)
              /\ sim.data[StartCell[1]][StartCell[2]] # "#"

C14_Witness ==
    /\ pc = "track_guard"
    /\ OneGuard
    /\ StartDir = "Left"
    /\ cand > Index(StartCell, width)
    /\ \E p \in Pending(data, height, width, 0) : Index(p, width) < Index(StartCell, width)

\* the cells on which two grids of the map's size differ
Changed(d, e) == {p \in Cells(height, width) : d[p[1]][p[2]] # e[p[1]][p[2]]}

\* C15: every candidate simulation of find_traps starts from the map's grid
\* with exactly one cell, an open one, turned into an obstacle, with the map's
\* guard and an empty set; no step of find_traps or of a simulation changes
\* the map's cells or guard, which on a freshly built map are the input's.
C15_SimulationsIsolated ==
    [][/\ pc \in {"find_traps", "track_guard"} => (data' = data /\ guard' = guard)
       /\ (pc \in {"find_traps", "track_guard"} /\ ~walked) =>
              (data = input /\ guard = guard0)
       /\ (pc = "find_traps" /\ pc' = "track_guard") =>
              /\ sim'.guard = guard
              /\ visited_locations' = {}
              /\ Cardinality(Changed(sim'.data, data)) = 1
              /\ \A p \in Changed(sim'.data, data) :
                    /\ data[p[1]][p[2]] = "."
                    /\ sim'.data[p[1]][p[2]] = "#"
                    /\ Index(p, width) = cand']_vars

C15_Witness ==
    /\ pc = "track_guard"
    /\ iters = 0
    /\ ~walked
    /\ IsSome(guard)
    /\ traps >= 1
    /\ \E p \in Pending(data, height, width, 0) : Index(p, width) < cand

InBounds(g) == g.loc.y \in 0 .. InH - 1 /\ g.loc.x \in 0 .. InW - 1

\* C16: in walk and in track_guard a guard that is present stands on a cell
\* of the grid (row in 0..H-1, column in 0..W-1); when the cell ahead is
\* outside the grid, walk sets the guard to absent and track_guard returns
\* None with the guard where she stood.
C16_GuardStaysInBounds ==
    [][/\ IsSome(guard') => InBounds(Unwrap(guard'))
       /\ IsSome(sim'.guard) => InBounds(Unwrap(sim'.guard))
       /\ (pc = "walk" /\ IsSome(guard) /\ ~AheadInside(Unwrap(guard))) =>
              guard' = None
       /\ (Stepping /\ ~AheadInside(Unwrap(sim.guard))) =>
              (tracked' = "None" /\ sim' = sim)]_vars

C16_Witness ==
    /\ pc = "walk"
    /\ guard = None
    /\ IsSome(prev)
    /\ Unwrap(prev).loc.x = InW - 1
    /\ Unwrap(prev).dir = "Right"
    /\ Unwrap(prev).loc # Unwrap(guard0).loc

\* the sides of the guard's cell on which an obstacle stands
ObstacleSides(d, g) == {dir \in Directions : AheadIs(d, Guard(g.loc, dir), "#")}

\* C17: a guard with obstacles on exactly three of her four sides turns at
\* most 3 times in a row, in walk and in track_guard, whichever way she faced
\* at first; after the third turn the cell ahead is not an obstacle, so the
\* next step moves her or has her depart.
C17_ThreeSidesThreeTurns ==
    /\ (pc = "walk" /\ IsSome(guard)
            /\ Cardinality(ObstacleSides(data, Unwrap(guard))) = 3) =>
          /\ turns <= 3
          /\ turns = 3 => ~AheadIs(data, Unwrap(guard), "#")
    /\ (pc = "track_guard" /\ IsSome(sim.guard)
            /\ Cardinality(ObstacleSides(sim.data, Unwrap(sim.guard))) = 3) =>
          /\ turns <= 3
          /\ turns = 3 => ~AheadIs(sim.data, Unwrap(sim.guard), "#")

C17_Witness ==
    /\ pc = "walk"
    /\ IsSome(guard)
    /\ Cardinality(ObstacleSides(data, Unwrap(guard))) = 3
    /\ turns = 3
    /\ AheadInside(Unwrap(guard))

\* C18: after a walk that has returned, count_steps is at most H*W, the
\* number of cells of the input grid.
C18_CountAtMostCells ==
    (walked /\ ret.op = "count_steps") => ret.val <= InH * InW

C18_Witness ==
    /\ walked
    /\ ret.op = "count_steps"
    /\ InH = 1
    /\ InW = 3
    /\ ret.val = InH * InW

\* C20: once walk has updated the guard, the cell she stands on holds the
\* character of her direction under '<' = Left, '>' = Right, '^' = Up,
\* 'v' = Down: reading the guard back from the grid gives her direction.
C20_GuardGlyphRoundTrip ==
    (pc = "walk" /\ IsSome(guard) /\ IsSome(prev)) =>
        /\ try_from(into_char(Unwrap(guard).dir)) = Some(Unwrap(guard).dir)
        /\ try_from(data[Unwrap(guard).loc.y][Unwrap(guard).loc.x])
              = Some(Unwrap(guard).dir)

\* the rules with both pages in the update
RulesOn(q) == {r \in rules : r[1] \in Range(q) /\ r[2] \in Range(q)}

\* the pages a page comes before, through one or more rules of rs
RECURSIVE After(_, _, _)
After(rs, ps, n) ==
    IF n = 0 THEN ps
    ELSE After(rs, ps \cup {r[2] : r \in {t \in rs : t[1] \in ps}}, n - 1)
Acyclic(rs) ==
    \A r \in rs : r[1] \notin After(rs, {r[2]}, Cardinality(rs))

IsPermutation(a, b) ==
    /\ Len(a) = Len(b)
    /\ Range(a) = Range(b)

\* C21: for an update of distinct pages whose rules are acyclic, the sequence
\* topological_sort returns is a permutation of the update in which X comes
\* before Y for every rule X|Y on the update, and validate accepts it.
C21_SortRespectsRules ==
    (IsSome(sorted_seq) /\ Acyclic(RulesOn(sequence))) =>
        LET out == Unwrap(sorted_seq)
        IN /\ IsPermutation(out, sequence)
           /\ \A r \in RulesOn(sequence) :
                 \E i, j \in DOMAIN out : i < j /\ out[i] = r[1] /\ out[j] = r[2]
           /\ validate(GraphNew(rules), out)

\* the Mul at index i has no Dont before it that no later Do before it undoes
NotSwitchedOff(q, i) ==
    \A j \in 1 .. i - 1 : q[j] = Dont => \E k \in j + 1 .. i - 1 : q[k] = Do

IncludedAt(q) == {i \in DOMAIN q : q[i][1] = "Mul" /\ NotSwitchedOff(q, i)}

\* the n-th smallest member of a set of indexes
NthOf(S, n) == CHOOSE i \in S : Cardinality({j \in S : j < i}) = n - 1

\* C22: filter_enabled returns, in their order in the list, the operands of
\* exactly the Mul instructions with no Dont after the most recent Do (or
\* the start of the list) before them; Do and Dont give no output.
C22_FilterEnabledFollowsSwitches ==
    IsSome(mul_instructions) =>
        LET out == Unwrap(mul_instructions)
            inc == IncludedAt(instructions)
        IN /\ Len(out) = Cardinality(inc)
           /\ \A n \in DOMAIN out :
                 out[n] = <<instructions[NthOf(inc, n)][2], instructions[NthOf(inc, n)][3]>>

C22_Witness ==
    /\ IsSome(mul_instructions)
    /\ instructions = <<Mul(2, 4), Dont, Mul(5, 5), Do>>
    /\ Unwrap(mul_instructions) = <<<<2, 4>>>>

\* the ids of the file blocks of a disk, with how many blocks each has
BlockCount(m, v) == Cardinality({i \in DOMAIN m : m[i] = v})
FileIds(m) == {Unwrap(m[i]) : i \in {j \in DOMAIN m : IsSome(m[j])}}

\* moving the rightmost file block into the leftmost free slot, again and
\* again, until no free slot precedes a file block
RECURSIVE RefCompact(_)
RefCompact(m) ==
    LET free == {i \in DOMAIN m : ~IsSome(m[i])}
        used == {i \in DOMAIN m : IsSome(m[i])}
        gaps == {i \in free : \E j \in used : i < j}
    IN IF gaps = {} THEN m
       ELSE LET i == CHOOSE x \in gaps : \A y \in gaps : x <= y
                j == CHOOSE x \in used : \A y \in used : y <= x
            IN RefCompact([m EXCEPT ![i] = m[j], ![j] = None])

\* C23: after Disk::defragment every file block precedes every free block,
\* each id has the blocks it had, the layout is the one got by moving the
\* rightmost file block into the leftmost free slot until no free slot
\* precedes a file block, and the checksum of the sample input is 1928.
C23_DiskCompacted ==
    /\ pc9 \in {"defragmented", "done"} =>
          /\ \A i, j \in DOMAIN map : (IsSome(map[i]) /\ ~IsSome(map[j])) => i < j
          /\ Len(map) = Len(disk_parse(disk_input))
          /\ \A v \in FileIds(map) \cup FileIds(disk_parse(disk_input)) :
                BlockCount(map, Some(v)) = BlockCount(disk_parse(disk_input), Some(v))
          /\ map = RefCompact(disk_parse(disk_input))
    /\ (pc9 = "done" /\ disk_input = SAMPLE9) => checksum = Some(1928)

C23_Witness ==
    /\ pc9 = "done"
    /\ disk_input = SAMPLE9
    /\ checksum = Some(1928)
    /\ map # disk_parse(disk_input)

\* the blocks the files of a list cover
Covered(l) ==
    UNION {l[k].position .. l[k].position + l[k].size - 1 : k \in DOMAIN l}

\* the free span that starts at block p: its blocks up to the next covered one
SpanStart(l, p) == p \notin Covered(l) /\ (p = 0 \/ p - 1 \in Covered(l))
SpanFits(l, p, n) == \A q \in p .. p + n - 1 : q \notin Covered(l)

\* where Files::defragment is to put a file: the start of the leftmost free
\* span left of it that is at least as long as it, or where it is
RefTarget(l, f) ==
    LET fits == {p \in 0 .. f.position - 1 : SpanStart(l, p) /\ SpanFits(l, p, f.size)}
    IN IF fits = {} THEN f.position
       ELSE CHOOSE p \in fits : \A q \in fits : p <= q

\* C24: every iteration of Files::defragment takes the file of the next
\* lower id and puts it, whole, at the start of the leftmost free span left
\* of it that is at least as long as it, or leaves it where it is; no id and
\* no size changes; the checksum of the sample input is 2858.
C24_FilesMovedWhole ==
    [][/\ (pc9 = "defragment" /\ pc9' # "panic") =>
              LET f == list[position_of(list, id)]
                  moved == [f EXCEPT !.position = RefTarget(list, f)]
              IN /\ Range(list') = (Range(list) \ {f}) \cup {moved}
                 /\ Len(list') = Len(list)
                 /\ id' = IF id = 0 THEN 0 ELSE id - 1
       /\ (pc9' = "done" /\ disk_input = SAMPLE9 /\ list # <<>>) =>
              checksum' = Some(2858)]_vars

NoOverlap(l) ==
    \A k \in 1 .. Len(l) - 1 : l[k].position + l[k].size <= l[k + 1].position

\* C30: for every input, zero-length files and gaps included, the files in
\* list order do not overlap after any iteration of Files::defragment, and
\* no subtraction b.position - (a.position + a.size) goes below zero.
C30_FilesNeverOverlap ==
    /\ pc9 \in {"parsed", "defragment", "defragmented", "done"} => NoOverlap(list)
    /\ ~wrapped
    /\ pc9 # "panic"

\* the cells of the city that are an antenna's position plus k >= 0 times
\* its offset from another antenna of its frequency
RefAntinodes(g) ==
    LET h == Len2(g)
        w == Len2(g[0])
        ants == {p \in Cells(h, w) : g[p[1]][p[2]] # "."}
    IN {c \in Cells(h, w) :
          \E p, q \in ants :
             /\ p # q
             /\ g[p[1]][p[2]] = g[q[1]][q[2]]
             /\ \E k \in 0 .. h + w :
                   c = <<p[1] + k * (p[1] - q[1]), p[2] + k * (p[2] - q[2])>>}

\* C25: on a city of any height and width, get_unique_antinode_count is the
\* number of cells of the city that are an antenna's position plus k >= 0
\* times its offset from another antenna of the same frequency.
C25_AntinodeCountOnRectangles ==
    IsSome(antinode_count) =>
        Unwrap(antinode_count) = Cardinality(RefAntinodes(city))

\* C26: on every rectangular grid with exactly one guard marker a call of
\* walk returns, with the guard departed.
C26_WalkTerminates ==
    (pc = "walk" /\ OneGuard) ~> (pc = "idle" /\ ret.op = "walk" /\ guard = None)

\* C27: find_traps counts a candidate only when its simulation has met a
\* (position, direction) pair it had recorded before; on a map with no
\* active guard (no glyph in the input, or after walk has run to departure)
\* find_traps returns 0.
C27_TrapsNeedRepeatedPair ==
    /\ (pc = "find_traps" /\ tracked = "Some")
          => (IsSome(sim.guard) /\ Unwrap(sim.guard) \in visited_locations)
    /\ (pc = "idle" /\ ret.op = "find_traps" /\ ~IsSome(guard)) => ret.val = 0

\* the cell find_traps has put the obstacle on for the simulation
Candidate == Marked(sim.data, "#") \ Marked(data, "#")

\* C28: every cell counted by find_traps is a cell of the unobstructed walk
\* of the same grid other than the start cell, and find_traps returns at most
\* count_steps - 1 of that walk on every grid where the walk departs.
C28_TrapsLieOnThePath ==
    /\ (pc = "find_traps" /\ tracked = "Some")
          => /\ OneGuard
             /\ Candidate \subseteq RefPatrol(ObstacleCells).cells \ {StartCell}
    /\ (pc = "idle" /\ ret.op = "find_traps" /\ OneGuard
           /\ RefPatrol(ObstacleCells).left)
          => ret.val <= Cardinality(RefPatrol(ObstacleCells).cells) - 1

\* the cell of the candidate a simulation is running for
CandidateCell == {p \in Cells(height, width) : Index(p, width) = cand}

\* C29: in every state of walk and of every simulation of find_traps the
\* guard's cell is not an obstacle and the obstacles are those of the grid the
\* walk started with (for a simulation: the input's and the candidate's): no
\* step overwrites a '#' and none creates one.
C29_ObstaclesAreFixed ==
    /\ pc \in {"idle", "walk", "find_traps", "track_guard"}
          => /\ Marked(data, "#") = ObstacleCells
             /\ IsSome(guard) => CellOf(Unwrap(guard)) \notin ObstacleCells
    /\ pc = "track_guard"
          => /\ Marked(sim.data, "#") = ObstacleCells \cup CandidateCell
             /\ IsSome(sim.guard)
                   => CellOf(Unwrap(sim.guard)) \notin ObstacleCells \cup CandidateCell

\* the guard has moved, turned at an obstacle and moved on
C29_Witness ==
    /\ pc = "walk" /\ IsSome(guard) /\ IsSome(prev)
    /\ Unwrap(prev).loc # Unwrap(guard).loc
    /\ Cardinality(Marked(data, "X")) >= 2
    /\ \E p \in ObstacleCells : p[1] = StartCell[1] \/ p[2] = StartCell[2]
    /\ Unwrap(guard).dir # Unwrap(guard0).dir
====
